---- MODULE Spec2Model ----
(***************************************************************************)
(* Model of the Mafioso game server (src/app.py): the rooms table, the     *)
(* per-room countdown timer threads, the voting and tally engine, the      *)
(* round controller and the disconnect handler.                            *)
(*                                                                         *)
(* Every socket handler is one atomic action.  The two kinds of background *)
(* thread the code starts (run_timer and delayed_next_round) interleave    *)
(* with the handlers at their time.sleep calls: a thread runs from one     *)
(* sleep to the next in one action.  SpecCreate takes create_room apart:   *)
(* the draw of a free code and the insertion are two steps of a handler    *)
(* thread, with other handlers in between.                                 *)
(***************************************************************************)
EXTENDS Integers, Sequences, FiniteSets, TLC

\* ------------------------------------------------------------- bounds
NumSids == 4        \* connections (socket ids) that ever exist
NumCodes == 1       \* room codes generate_room_code can draw
NumHosts == 1       \* connections that send create_room
MaxTime == 1        \* largest round_time a host sends
MaxTimers == 2      \* run_timer threads ever started
MaxPending == 1     \* delayed_next_round threads sleeping at once, per code
NumHints == 1       \* generic hints random.choice can draw
NumClues == 1       \* clues of the scenario
NumTargets == 2     \* players a cast_vote request names
NumCreators == 2    \* connections whose create_room handlers run concurrently

Min(a, b) == IF a < b THEN a ELSE b

Sids == 1..NumSids
Hosts == 1..Min(NumHosts, NumSids)
Codes == 1..NumCodes
RoundTimes == 1..MaxTime
MafiaCounts == {1, NumSids}
Targets == 1..NumTargets
Creators == 1..Min(NumCreators, NumSids)
Hints == {"hint"} \X (1..NumHints)
None == "None"

\* A sid or a code of 0 stands for "none".

\* ------------------------------------------------------------- state
VARIABLES
    rooms,          \* rooms: code -> room (a function on the live codes)
    room_order,     \* insertion order of the rooms dict
    active_timers,  \* active_timers: code -> BOOLEAN (keys are never removed)
    timers,         \* the run_timer threads that have not returned
    pending,        \* code -> number of delayed_next_round threads asleep
    gone,           \* connections that have disconnected (a sid is not reused)
    creating,       \* create_room handlers that drew a free code and have not inserted
    ntimers,        \* observer: run_timer threads started so far (thread id)
    newest,         \* observer: code -> id of the timer started last for it
    hist,           \* observer: code -> a player was eliminated this round, game_over was sent this game
    last,           \* observer: the accepted request or thread step executed last
    out             \* observer: what that step emitted

vars == <<rooms, room_order, active_timers, timers, pending, gone, creating,
          ntimers, newest, hist, last, out>>

\* What a step emitted: ok, the request was accepted; tallied, tally_votes ran;
\* kicked and nvotes, the player and the votes of player_kicked; over, game_over
\* broadcasts; events, the timer events in order; winner, get_winner's result
\* when the step is an evaluation of it alone.
NoOut == [ok |-> FALSE, tallied |-> FALSE, kicked |-> 0, nvotes |-> 0,
          over |-> 0, winner |-> None, events |-> <<>>]

NoLast == [op |-> "init", sid |-> 0, room |-> 0, arg |-> 0, tid |-> 0]

\* A request of connection sid for a room; arg is the target of a vote or the
\* mafia_count of a start_game.
Req(op, sid, code, arg) == [op |-> op, sid |-> sid, room |-> code, arg |-> arg, tid |-> 0]

\* A step of a background thread.
Step(op, code, tid) == [op |-> op, sid |-> 0, room |-> code, arg |-> 0, tid |-> tid]

\* The program state an operation reads and writes, with a fresh `out`.
World ==
    [rooms |-> rooms, room_order |-> room_order, active_timers |-> active_timers,
     timers |-> timers, pending |-> pending, ntimers |-> ntimers,
     newest |-> newest, hist |-> hist, out |-> NoOut]

SetWorld(w) ==
    /\ rooms' = w.rooms
    /\ room_order' = w.room_order
    /\ active_timers' = w.active_timers
    /\ timers' = w.timers
    /\ pending' = w.pending
    /\ ntimers' = w.ntimers
    /\ newest' = w.newest
    /\ hist' = w.hist

\* Within the bounds on threads.
InBounds(w) ==
    /\ w.ntimers <= MaxTimers
    /\ \A c \in Codes : w.pending[c] <= MaxPending

\* ------------------------------------------------------------- dict helpers
\* d[k] = v on a dict held as a function.
Put(d, k, v) == [x \in DOMAIN d \cup {k} |-> IF x = k THEN v ELSE d[x]]

\* del d[k]
Del(d, k) == [x \in DOMAIN d \ {k} |-> d[x]]

\* del on a dict held as its insertion order
DelSeq(s, k) == SelectSeq(s, LAMBDA x : x # k)

\* An empty dict.
NoVotes == [v \in {} |-> 0]

\* ------------------------------------------------------------- scenarios
\* scenarios.SCENARIOS: one scenario, with NumClues ordered clues.
\* room['scenario'] before a game starts (None in the code).
NoScenario == [title |-> None, clues |-> <<>>]

SCENARIOS == {[title |-> "case", clues |-> [i \in 1..NumClues |-> <<"clue", i>>]]}

\* ------------------------------------------------------------- helpers
AliveMafia(room) ==
    Cardinality({s \in DOMAIN room.players :
        room.players[s].role = "Mafioso" /\ room.players[s].alive})

AliveTown(room) ==
    Cardinality({s \in DOMAIN room.players :
        room.players[s].role # "Mafioso" /\ room.players[s].alive})

get_winner_more(room) ==
    IF AliveMafia(room) = 0 THEN "Town"
    ELSE IF AliveMafia(room) > AliveTown(room) THEN "Mafia"
    ELSE None

get_winner(room) ==
    IF AliveMafia(room) = 0 THEN "Town"
    ELSE IF AliveMafia(room) >= AliveTown(room) THEN "Mafia"
    ELSE None

stop_timer(w, code) ==
    IF code \in DOMAIN w.active_timers
    THEN [w EXCEPT !.active_timers[code] = FALSE]
    ELSE w

\* ------------------------------------------------------------- observers
NoHist == [kicked |-> FALSE, over |-> FALSE]

\* ------------------------------------------------------------- rounds
start_new_round_reset(w, code, hint) ==
    IF code \notin DOMAIN w.rooms THEN w
    ELSE
    LET room == w.rooms[code]
        round == room.round + 1
        new_clue == IF round - 1 < Len(room.scenario.clues)
                    THEN room.scenario.clues[round] ELSE hint
        tid == w.ntimers + 1
    IN  [w EXCEPT !.rooms[code].round = round,
                  !.rooms[code].evidence_history = <<new_clue>>,
                  !.rooms[code].state = "DAY",
                  !.rooms[code].votes = NoVotes,
                  !.rooms[code].votes_order = <<>>,
                  !.hist[code].kicked = FALSE,
                  !.timers = @ \cup {[tid |-> tid, room |-> code, pc |-> "start",
                                     count |-> room.config.time]},
                  !.ntimers = tid,
                  !.newest[code] = tid]

\* start_new_round(room_code); hint is what random.choice(generic_hints) draws.
\* room['scenario'] is None raises at line 218, after the round was incremented.
start_new_round(w, code, hint) ==
    IF code \notin DOMAIN w.rooms THEN w
    ELSE
    LET room == w.rooms[code]
        round == room.round + 1
        current_round_idx == round - 1
    IN  IF room.scenario = NoScenario
        THEN [w EXCEPT !.rooms[code].round = round]
        ELSE
        LET clues == room.scenario.clues
            new_clue == IF current_round_idx < Len(clues)
                        THEN clues[current_round_idx + 1]
                        ELSE hint
            w1 == [w EXCEPT !.rooms[code].round = round,
                            !.rooms[code].evidence_history = Append(@, new_clue),
                            !.rooms[code].state = "DAY",
                            !.rooms[code].votes = NoVotes,
                            !.rooms[code].votes_order = <<>>,
                            !.hist[code].kicked = FALSE]
            w2 == stop_timer(w1, code)
            tid == w.ntimers + 1
        IN  [w2 EXCEPT !.timers = @ \cup {[tid |-> tid, room |-> code, pc |-> "start",
                                          count |-> room.config.time]},
                       !.ntimers = tid,
                       !.newest[code] = tid]

\* ------------------------------------------------------------- votes
\* room['votes'] is a dict voter -> target.  It is held as the function votes
\* and, of the order of its keys, what max() depends on: votes_order, the
\* targets in the order in which the loop of lines 338-339 meets them first
\* (the key order of vote_counts).  A key is never deleted and, in the model, a
\* voter who votes again in a round names the same target again (SameVote), so
\* a target new to the dict is met after all the others.

\* len(room['votes'])
VotesCast(votes) == Cardinality(DOMAIN votes)

\* vote_counts[target] after the loop of lines 338-339.
VoteCount(votes, target) == Cardinality({v \in DOMAIN votes : votes[v] = target})

\* room['votes'][voter] = target, on the key order of vote_counts.
OrderWith(votes_order, target) ==
    IF \E i \in DOMAIN votes_order : votes_order[i] = target
    THEN votes_order
    ELSE Append(votes_order, target)

\* max(vote_counts, key=vote_counts.get): the first key of vote_counts with the
\* largest count.
MaxVoted(votes, votes_order) ==
    LET n(i) == VoteCount(votes, votes_order[i])
        i == CHOOSE i \in DOMAIN votes_order :
                /\ \A j \in DOMAIN votes_order : n(j) <= n(i)
                /\ \A j \in 1..(i - 1) : n(j) < n(i)
    IN  votes_order[i]

AlivePlayers(room) == {pid \in DOMAIN room.players : room.players[pid].alive}

\* tally_votes(room_code).  roles_ok: ROLES_AR (scenarios.py) has an entry for
\* the eliminated player's role; it has one for Mafioso and Civilian (line 194).
tally_votes(w, code, hint, roles_ok) ==
    IF code \notin DOMAIN w.rooms THEN w
    ELSE
    LET w0 == stop_timer([w EXCEPT !.out.tallied = TRUE], code)
        room == w0.rooms[code]
    IN  IF DOMAIN room.votes = {} THEN start_new_round(w0, code, hint)
        ELSE
        LET kicked_sid == MaxVoted(room.votes, room.votes_order)
        IN  IF kicked_sid \notin DOMAIN room.players
            THEN w0
            ELSE
            LET w1 == [w0 EXCEPT !.rooms[code].players[kicked_sid].alive = FALSE,
                                 !.hist[code].kicked = TRUE]
                role == room.players[kicked_sid].role
            IN  IF role = "Spectator" /\ ~roles_ok
                THEN w1
                ELSE
                LET w2 == [w1 EXCEPT !.out.kicked = kicked_sid,
                                     !.out.nvotes = VoteCount(room.votes, kicked_sid)]
                    winner == get_winner(w2.rooms[code])
                IN  IF winner # None
                    THEN stop_timer([w2 EXCEPT !.out.over = @ + 1,
                                               !.hist[code].over = TRUE,
                                               !.rooms[code].state = "END"], code)
                    ELSE [w2 EXCEPT !.pending[code] = @ + 1]

\* handle_vote(data), request.sid = sid.
handle_vote(w, sid, code, target_sid, hint, roles_ok) ==
    IF code \notin DOMAIN w.rooms THEN w
    ELSE
    LET room == w.rooms[code]
    IN  IF sid \notin DOMAIN room.players THEN w
        ELSE IF ~room.players[sid].alive THEN w
        ELSE IF target_sid \notin DOMAIN room.players THEN w
        ELSE IF ~room.players[target_sid].alive THEN w
        ELSE
        LET w1 == [w EXCEPT !.rooms[code].votes = Put(@, sid, target_sid),
                            !.rooms[code].votes_order = OrderWith(@, target_sid),
                            !.out.ok = TRUE]
            alive_players == AlivePlayers(room)
            votes_cast == VotesCast(w1.rooms[code].votes)
        IN  IF votes_cast >= Cardinality(alive_players)
            THEN tally_votes(w1, code, hint, roles_ok)
            ELSE w1

\* ------------------------------------------------------------- rooms
NewPlayer(is_host) == [role |-> "Spectator", alive |-> TRUE, is_host |-> is_host]

NewRoom(sid) ==
    [players |-> [s \in {sid} |-> NewPlayer(TRUE)],
     state |-> "LOBBY",
     host |-> sid,
     scenario |-> NoScenario,
     round |-> 0,
     votes |-> NoVotes,
     votes_order |-> <<>>,
     config |-> [time |-> 60, mafia_count |-> 1],
     evidence_history |-> <<>>]

\* handle_create_room(data) from line 80; code is the first
\* generate_room_code() draw that was not in rooms at line 77.  An assignment
\* to a key the dict has keeps the key's place.
handle_create_room(w, sid, code) ==
    [w EXCEPT !.rooms = Put(@, code, NewRoom(sid)),
              !.room_order = IF code \in DOMAIN w.rooms THEN @ ELSE Append(@, code),
              !.hist[code] = NoHist,
              !.out.ok = TRUE]

handle_join_room_any(w, sid, code) ==
    IF code \notin DOMAIN w.rooms THEN w
    ELSE [w EXCEPT !.rooms[code].players = Put(@, sid, NewPlayer(FALSE)),
                   !.out.ok = TRUE]

\* handle_join_room(data)
handle_join_room(w, sid, code) ==
    IF code \notin DOMAIN w.rooms THEN w
    ELSE IF w.rooms[code].state # "LOBBY" THEN w
    ELSE [w EXCEPT !.rooms[code].players = Put(@, sid, NewPlayer(FALSE)),
                   !.out.ok = TRUE]

Shuffles_fewer(w, code, mafia_count) ==
    IF code \in DOMAIN w.rooms /\ mafia_count < Cardinality(DOMAIN w.rooms[code].players)
    THEN {m \in SUBSET DOMAIN w.rooms[code].players : Cardinality(m) <= mafia_count}
    ELSE {{}}

\* What random.shuffle(roles) can give: the players who draw Mafioso.
Shuffles(w, code, mafia_count) ==
    IF code \in DOMAIN w.rooms /\ mafia_count < Cardinality(DOMAIN w.rooms[code].players)
    THEN {m \in SUBSET DOMAIN w.rooms[code].players : Cardinality(m) = mafia_count}
    ELSE {{}}

start_game_returns_more(w, sid, code, mafia_count) ==
    \/ code \notin DOMAIN w.rooms
    \/ w.rooms[code].host # sid
    \/ Cardinality(DOMAIN w.rooms[code].players) < 3
    \/ mafia_count > Cardinality(DOMAIN w.rooms[code].players)

\* The early returns of handle_start_game, lines 141-156.
start_game_returns(w, sid, code, mafia_count) ==
    \/ code \notin DOMAIN w.rooms
    \/ w.rooms[code].host # sid
    \/ Cardinality(DOMAIN w.rooms[code].players) < 3
    \/ mafia_count >= Cardinality(DOMAIN w.rooms[code].players)

\* handle_start_game(data), request.sid = sid.
handle_start_game(w, sid, code, mafia_count, round_time, scenario, mafiosi, hint) ==
    IF start_game_returns(w, sid, code, mafia_count) THEN w
    ELSE
    LET player_sids == DOMAIN w.rooms[code].players
    IN  LET w1 == [w EXCEPT
                !.rooms[code].config = [time |-> round_time, mafia_count |-> mafia_count],
                !.rooms[code].scenario = scenario,
                !.rooms[code].players = [p \in player_sids |->
                    [@[p] EXCEPT !.role = IF p \in mafiosi THEN "Mafioso" ELSE "Civilian",
                                 !.alive = TRUE]],
                !.hist[code].over = FALSE,
                !.out.ok = TRUE]
        IN  start_new_round(w1, code, hint)

\* The first room, in the order of the rooms dict, that has the player.
RoomOf(w, sid) ==
    LET idx == {i \in DOMAIN w.room_order : sid \in DOMAIN w.rooms[w.room_order[i]].players}
    IN  IF idx = {} THEN 0
        ELSE w.room_order[CHOOSE i \in idx : \A j \in idx : i <= j]

game_over_on_disconnect_night(w, room_code) ==
    IF w.rooms[room_code].state \in {"NIGHT"} /\ get_winner(w.rooms[room_code]) # None
    THEN [w EXCEPT !.out.over = @ + 1,
                   !.hist[room_code].over = TRUE,
                   !.rooms[room_code].state = "END"]
    ELSE w

\* lines 423-432 of handle_disconnect: the win condition of a running game.
game_over_on_disconnect(w, room_code) ==
    IF w.rooms[room_code].state \in {"DAY", "NIGHT"} /\ get_winner(w.rooms[room_code]) # None
    THEN [w EXCEPT !.out.over = @ + 1,
                   !.hist[room_code].over = TRUE,
                   !.rooms[room_code].state = "END"]
    ELSE w

handle_disconnect_keep(w, sid) ==
    LET room_code == RoomOf(w, sid)
    IN  IF room_code = 0 THEN w
        ELSE
        LET w1 == [w EXCEPT !.rooms[room_code].players = Del(@, sid), !.out.ok = TRUE]
            room_data == w1.rooms[room_code]
        IN  IF DOMAIN room_data.players = {}
            THEN stop_timer(w1, room_code)
            ELSE game_over_on_disconnect(w1, room_code)

\* handle_disconnect(), request.sid = sid.
handle_disconnect(w, sid) ==
    LET room_code == RoomOf(w, sid)
    IN  IF room_code = 0 THEN w
        ELSE
        LET w1 == [w EXCEPT !.rooms[room_code].players = Del(@, sid), !.out.ok = TRUE]
            room_data == w1.rooms[room_code]
        IN  IF DOMAIN room_data.players = {}
            THEN LET w2 == stop_timer(w1, room_code)
                 IN  [w2 EXCEPT !.rooms = Del(@, room_code),
                                !.room_order = DelSeq(@, room_code)]
            ELSE game_over_on_disconnect(w1, room_code)

\* ------------------------------------------------------------- run_timer
Active(w, code) == code \in DOMAIN w.active_timers /\ w.active_timers[code]

\* lines 62-65: the loop is over
timer_finish(w, t) ==
    IF t.room \in DOMAIN w.rooms /\ Active(w, t.room)
    THEN [w EXCEPT !.out.events = Append(@, "timer_end"),
                   !.active_timers[t.room] = FALSE,
                   !.timers = @ \ {t}]
    ELSE [w EXCEPT !.timers = @ \ {t}]

\* line 53: the loop test, then time.sleep(1) or the end of the loop
timer_loop(w, t, count) ==
    IF count > 0 /\ Active(w, t.room)
    THEN [w EXCEPT !.timers = (@ \ {t}) \cup {[t EXCEPT !.pc = "sleep", !.count = count]}]
    ELSE timer_finish(w, t)

\* lines 50-53: the thread starts
timer_start(w, t) ==
    timer_loop([w EXCEPT !.active_timers = Put(@, t.room, TRUE)], t, t.count)

\* lines 55-60, when time.sleep(1) returns, then the loop test again
timer_tick(w, t) ==
    IF t.room \in DOMAIN w.rooms /\ Active(w, t.room)
    THEN timer_loop([w EXCEPT !.out.events = Append(@, "timer_update")], t, t.count - 1)
    ELSE [w EXCEPT !.timers = @ \ {t}]

\* delayed_next_round(), when time.sleep(5) returns
delayed_next_round(w, code, hint) ==
    LET w1 == [w EXCEPT !.pending[code] = @ - 1]
    IN  IF code \in DOMAIN w1.rooms THEN start_new_round(w1, code, hint) ELSE w1

\* ------------------------------------------------------------- actions
Init ==
    /\ rooms = [c \in {} |-> 0]
    /\ room_order = <<>>
    /\ active_timers = [c \in {} |-> FALSE]
    /\ timers = {}
    /\ pending = [c \in Codes |-> 0]
    /\ gone = {}
    /\ creating = {}
    /\ ntimers = 0
    /\ newest = [c \in Codes |-> 0]
    /\ hist = [c \in Codes |-> NoHist]
    /\ last = NoLast
    /\ out = NoOut

\* The observers record a step that was a thread's or an accepted request.
Observe(w, l) ==
    /\ last' = IF w.out.ok THEN l ELSE last
    /\ out' = IF w.out.ok THEN w.out ELSE out

Do(w, l) ==
    /\ InBounds(w)
    /\ SetWorld(w)
    /\ Observe(w, l)
    /\ UNCHANGED <<gone, creating>>

\* A thread's step is always observed.
Run(w) == [w EXCEPT !.out.ok = TRUE]

\* A connection that has a vote in the dict names the same target again.
SameVote(sid, code, target_sid) ==
    (code \in DOMAIN rooms /\ sid \in DOMAIN rooms[code].votes)
        => rooms[code].votes[sid] = target_sid

\* The outcomes of the lookup of a role in ROLES_AR.
RolesOk(w, code) ==
    IF code \in DOMAIN w.rooms
       /\ \E p \in DOMAIN w.rooms[code].players : w.rooms[code].players[p].role = "Spectator"
    THEN BOOLEAN
    ELSE {TRUE}

CreateRoom ==
    \E sid \in Hosts \ gone, code \in Codes \ DOMAIN rooms :
        Do(handle_create_room(World, sid, code), Req("create_room", sid, code, 0))

JoinRoom ==
    \E sid \in Sids \ gone, code \in Codes :
        Do(handle_join_room(World, sid, code), Req("join_room", sid, code, 0))

StartGame ==
    \E sid \in Sids \ gone, code \in Codes, mafia_count \in MafiaCounts,
       round_time \in RoundTimes, scenario \in SCENARIOS, hint \in Hints :
        \E mafiosi \in Shuffles(World, code, mafia_count) :
            Do(handle_start_game(World, sid, code, mafia_count, round_time,
                                 scenario, mafiosi, hint),
               Req("start_game", sid, code, mafia_count))

CastVote ==
    \E sid \in Sids \ gone, code \in Codes, target_sid \in Targets,
       hint \in Hints :
      \E roles_ok \in RolesOk(World, code) :
        /\ SameVote(sid, code, target_sid)
        /\ Do(handle_vote(World, sid, code, target_sid, hint, roles_ok),
              Req("cast_vote", sid, code, target_sid))

Disconnect ==
    \E sid \in Sids \ gone :
        /\ RoomOf(World, sid) # 0
        /\ InBounds(handle_disconnect(World, sid))
        /\ SetWorld(handle_disconnect(World, sid))
        /\ Observe(handle_disconnect(World, sid), Req("disconnect", sid, RoomOf(World, sid), 0))
        /\ gone' = gone \cup {sid}
        /\ UNCHANGED creating

TimerStart ==
    \E t \in timers :
        /\ t.pc = "start"
        /\ Do(Run(timer_start(World, t)), Step("run_timer", t.room, t.tid))

TimerTick ==
    \E t \in timers :
        /\ t.pc = "sleep"
        /\ Do(Run(timer_tick(World, t)), Step("run_timer", t.room, t.tid))

DelayedNextRound ==
    \E code \in Codes, hint \in Hints :
        /\ pending[code] > 0
        /\ Do(Run(delayed_next_round(World, code, hint)), Step("delayed_next_round", code, 0))

\* lines 74-78 of handle_create_room alone: the handler has drawn a code that
\* is not in rooms and has not reached line 80.
CreateDraw ==
    \E sid \in Creators \ gone, code \in Codes \ DOMAIN rooms :
        /\ [sid |-> sid, code |-> code] \notin creating
        /\ creating' = creating \cup {[sid |-> sid, code |-> code]}
        /\ last' = Req("generate_room_code", sid, code, 0)
        /\ out' = [NoOut EXCEPT !.ok = TRUE]
        /\ UNCHANGED <<rooms, room_order, active_timers, timers, pending, gone,
                       ntimers, newest, hist>>

\* lines 80-104 of handle_create_room, of a handler that has drawn its code.
CreateInsert ==
    \E r \in creating :
        /\ InBounds(handle_create_room(World, r.sid, r.code))
        /\ SetWorld(handle_create_room(World, r.sid, r.code))
        /\ Observe(handle_create_room(World, r.sid, r.code),
                   Req("create_room", r.sid, r.code, 0))
        /\ creating' = creating \ {r}
        /\ UNCHANGED gone

\* The handlers and the delayed_next_round threads.
NextGame ==
    \/ CreateRoom
    \/ JoinRoom
    \/ StartGame
    \/ CastVote
    \/ Disconnect
    \/ DelayedNextRound

\* The run_timer threads, and the handlers that start and stop them without a vote.
NextTimer ==
    \/ CreateRoom
    \/ JoinRoom
    \/ StartGame
    \/ Disconnect
    \/ TimerStart
    \/ TimerTick

\* The create_room handlers as concurrent threads: another handler runs
\* between the test of line 77 and the insertion of line 80.
NextCreate ==
    \/ CreateDraw
    \/ CreateInsert
    \/ JoinRoom
    \/ Disconnect

Next == NextGame \/ NextTimer \/ NextCreate

\* Every handler and every thread.
Spec == Init /\ [][Next]_vars

\* The game without the steps of the run_timer threads.  run_timer writes
\* active_timers alone, and no handler reads active_timers to decide anything
\* else: the rooms of Spec are the rooms of SpecGame.
SpecGame == Init /\ [][NextGame]_vars

\* The timers without votes.
SpecTimer == Init /\ [][NextTimer]_vars

\* The rooms table under concurrent create_room handlers.
SpecCreate == Init /\ [][NextCreate]_vars

\* ------------------------------------------------------------- get_winner alone
Roles == {"Mafioso", "Civilian", "Spectator"}

\* Every roster of the connections: who is in the room, with which role, alive or not.
Rosters ==
    UNION {[ps -> [role : Roles, alive : BOOLEAN, is_host : {FALSE}]] : ps \in SUBSET Sids}

InitWinner ==
    /\ \E c \in Codes, roster \in Rosters :
        /\ rooms = [x \in {c} |-> [NewRoom(1) EXCEPT !.players = roster]]
        /\ room_order = <<c>>
    /\ active_timers = [c \in {} |-> FALSE]
    /\ timers = {}
    /\ pending = [c \in Codes |-> 0]
    /\ gone = {}
    /\ creating = {}
    /\ ntimers = 0
    /\ newest = [c \in Codes |-> 0]
    /\ hist = [c \in Codes |-> NoHist]
    /\ last = NoLast
    /\ out = NoOut

\* winner = get_winner(room), as at lines 370 and 425.
GetWinner ==
    \E c \in DOMAIN rooms :
        /\ last.op = "init"
        /\ Do([World EXCEPT !.out.winner = get_winner(rooms[c]), !.out.ok = TRUE],
              Step("get_winner", c, 0))

SpecWinner == InitWinner /\ [][GetWinner]_vars

\* ------------------------------------------------------------- claims
\* C1: when a room's timer runs out while it is the active timer and the room
\* is in a round, that step tallies the round; with no vote cast nobody is
\* eliminated and the next round starts (round + 1).
C1_TimerExpiryTallies ==
    [][\A c \in DOMAIN rooms :
        (/\ last'.op = "run_timer"
         /\ last'.room = c
         /\ \E i \in DOMAIN out'.events : out'.events[i] = "timer_end"
         /\ rooms[c].state = "DAY")
        => /\ out'.tallied
           /\ DOMAIN rooms[c].votes = {} =>
                /\ c \in DOMAIN rooms'
                /\ rooms'[c].round = rooms[c].round + 1
                /\ rooms'[c].players = rooms[c].players]_vars

\* C2: a timer_update or timer_end is only ever emitted by the timer started
\* last for its room: once a newer timer was started, an older one is silent.
C2_OneTickStream ==
    (last.op = "run_timer" /\ out.events # <<>>) => last.tid = newest[last.room]

\* The game of room c was started: start_new_round ran for it.
Started(c) == rooms[c].round >= 1

\* Player p of room c loses the alive flag in this step.
Eliminated(c, p) ==
    /\ p \in DOMAIN rooms[c].players
    /\ p \in DOMAIN rooms'[c].players
    /\ rooms[c].players[p].alive
    /\ ~rooms'[c].players[p].alive

\* C3: tally is idempotent per round: once a player was eliminated in a round,
\* no step before the next start_new_round eliminates a player or sends
\* player_kicked, and once game_over was sent in a game it is not sent again.
\* Stated of the rooms whose game was started.
C3_TallyOncePerRound ==
    [][\A c \in DOMAIN rooms \cap DOMAIN rooms' :
        (Started(c) /\ last'.room = c) =>
            /\ hist[c].kicked => /\ out'.kicked = 0
                                 /\ \A p \in Sids : ~Eliminated(c, p)
            /\ hist[c].over => out'.over = 0]_vars

\* C4: END is terminal: a room in state END stays in END, with the same round
\* number, for as long as it exists.  Stated of the rooms whose game was started.
C4_EndIsTerminal ==
    [][\A c \in DOMAIN rooms \cap DOMAIN rooms' :
        (Started(c) /\ rooms[c].state = "END") =>
            /\ rooms'[c].state = "END"
            /\ rooms'[c].round = rooms[c].round]_vars

\* C5: in every reachable state, each entry voter -> target of a room's votes
\* has a voter and a target that are living players of the room.  Stated of
\* the rooms whose game was started.
C5_VotesAmongLiving ==
    \A c \in DOMAIN rooms : \A v \in DOMAIN rooms[c].votes :
      Started(c) =>
        /\ v \in DOMAIN rooms[c].players
        /\ rooms[c].players[v].alive
        /\ rooms[c].votes[v] \in DOMAIN rooms[c].players
        /\ rooms[c].players[rooms[c].votes[v]].alive

\* The living players of a roster that hold, or do not hold, role Mafioso.
LivingMafiosi(players) ==
    {p \in DOMAIN players : players[p].alive /\ players[p].role = "Mafioso"}

LivingOthers(players) ==
    {p \in DOMAIN players : players[p].alive /\ players[p].role # "Mafioso"}

\* The winner the rules give a roster.
WinnerOf(players) ==
    LET m == Cardinality(LivingMafiosi(players))
        o == Cardinality(LivingOthers(players))
    IN  CASE m = 0 -> "Town"
          [] m > 0 /\ m >= o -> "Mafia"
          [] OTHER -> None

\* C6: for every roster get_winner returns Town when no Mafioso is alive, Mafia
\* when the living Mafiosi are at least one and at least as many as the other
\* living players, and None otherwise; the room it is given stays as it was.
C6_WinnerByCounts ==
    [][last'.op = "get_winner" =>
        /\ out'.winner = WinnerOf(rooms[last'.room].players)
        /\ rooms' = rooms]_vars

\* C6 witness: get_winner returned Mafia for a roster with as many living
\* Mafiosi as other living players.
C6_Witness ==
    /\ last.op = "get_winner"
    /\ out.winner = "Mafia"
    /\ Cardinality(LivingMafiosi(rooms[last.room].players))
          = Cardinality(LivingOthers(rooms[last.room].players))

IsPrefix(s, t) == Len(s) <= Len(t) /\ \A i \in DOMAIN s : s[i] = t[i]

C8_UnanimousVoteKicks ==
    [][\A c \in DOMAIN rooms :
        LET room == rooms[c]
            living == AlivePlayers(room)
            votes1 == Put(room.votes, last'.sid, last'.arg)
        IN  (/\ last'.op = "cast_vote"
             /\ last'.room = c
             /\ room.state = "DAY"
             /\ living \subseteq DOMAIN votes1
             /\ \A p \in living : votes1[p] = last'.arg)
            => /\ out'.tallied
               /\ c \in DOMAIN rooms'
               /\ ~rooms'[c].players[last'.arg].alive
               /\ out'.kicked = last'.arg
               /\ out'.nvotes = Cardinality(living)]_vars

\* C9: when a player disconnects from a room in a round and other players stay,
\* the winner is evaluated on those who stay in that same step: if there is
\* one, game_over is sent and the room's state becomes END.
C9_DisconnectEndsGame ==
    [][\A c \in DOMAIN rooms :
        LET rest == Del(rooms[c].players, last'.sid)
        IN  (/\ last'.op = "disconnect"
             /\ last'.room = c
             /\ rooms[c].state = "DAY"
             /\ DOMAIN rest # {}
             /\ WinnerOf(rest) # None)
            => /\ c \in DOMAIN rooms'
               /\ rooms'[c].players = rest
               /\ rooms'[c].state = "END"
               /\ out'.over = 1]_vars

\* C9 witness: a disconnect left as many living Mafiosi as other living
\* players, game_over was sent and the room is in END.
C9_Witness ==
    /\ last.op = "disconnect"
    /\ last.room \in DOMAIN rooms
    /\ rooms[last.room].state = "END"
    /\ out.over = 1
    /\ ~out.tallied
    /\ LivingMafiosi(rooms[last.room].players) # {}
    /\ Cardinality(LivingMafiosi(rooms[last.room].players))
          >= Cardinality(LivingOthers(rooms[last.room].players))

\* A start_game of sid for room code that is to be rejected.
StartRejected(sid, code, mafia_count) ==
    /\ code \in DOMAIN rooms
    /\ \/ rooms[code].host # sid
       \/ Cardinality(DOMAIN rooms[code].players) < 3
       \/ mafia_count >= Cardinality(DOMAIN rooms[code].players)

\* A cast_vote of sid for target in room code that is to be rejected.
VoteRejected(sid, code, target) ==
    \/ code \notin DOMAIN rooms
    \/ sid \notin DOMAIN rooms[code].players
    \/ ~rooms[code].players[sid].alive
    \/ target \notin DOMAIN rooms[code].players
    \/ ~rooms[code].players[target].alive

\* C10: a rejected request changes nothing: a start_game that is not the
\* host's, or with fewer than 3 players, or with mafia_count >= the number of
\* players, and a cast_vote for an unknown room, of an absent or dead voter, or
\* for an absent or dead target, leave every room, the timer flags and the
\* threads as they were.
C10_RejectedChangesNothing ==
    /\ \A sid \in Sids, code \in Codes, mafia_count \in MafiaCounts,
          round_time \in RoundTimes, scenario \in SCENARIOS, hint \in Hints :
        \A mafiosi \in Shuffles(World, code, mafia_count) :
            StartRejected(sid, code, mafia_count) =>
                handle_start_game(World, sid, code, mafia_count, round_time,
                                  scenario, mafiosi, hint) = World
    /\ \A sid \in Sids, code \in Codes \cup {0}, target \in Sids, hint \in Hints,
          roles_ok \in BOOLEAN :
            VoteRejected(sid, code, target) =>
                handle_vote(World, sid, code, target, hint, roles_ok) = World

\* C10 witness: in a round with a vote in, a start_game of a player who is not
\* the host and a cast_vote of an eliminated player are rejected.
C10_Witness ==
    \E c \in DOMAIN rooms, sid \in Sids, dead \in Sids, target \in Sids :
        /\ rooms[c].state = "DAY"
        /\ DOMAIN rooms[c].votes # {}
        /\ sid \in DOMAIN rooms[c].players
        /\ StartRejected(sid, c, 1)
        /\ \A scenario \in SCENARIOS, hint \in Hints :
            handle_start_game(World, sid, c, 1, 1, scenario, {}, hint) = World
        /\ dead \in DOMAIN rooms[c].players
        /\ ~rooms[c].players[dead].alive
        /\ target \in AlivePlayers(rooms[c])
        /\ \A hint \in Hints : handle_vote(World, dead, c, target, hint, TRUE) = World

\* A join_room of a connection for room code that is to be rejected.
JoinRejected(code) ==
    \/ code \notin DOMAIN rooms
    \/ rooms[code].state # "LOBBY"

\* C11: join_room succeeds only for an existing room in LOBBY.  A join with an
\* unknown code or on a room that is not in LOBBY changes nothing; a room that
\* is not in LOBBY, or whose game was started, never gains a player; a join
\* that succeeds was sent for a room in LOBBY and leaves the player in the
\* roster with role Spectator, alive and not host.
C11_JoinOnlyInLobby ==
    /\ [](\A sid \in Sids, code \in Codes \cup {0} :
            JoinRejected(code) => handle_join_room(World, sid, code) = World)
    /\ [][\A c \in DOMAIN rooms \cap DOMAIN rooms' :
            /\ (Started(c) \/ rooms[c].state # "LOBBY")
                    => DOMAIN rooms'[c].players \subseteq DOMAIN rooms[c].players
            /\ (last'.op = "join_room" /\ last'.room = c)
                    => /\ rooms[c].state = "LOBBY"
                       /\ last'.sid \in DOMAIN rooms'[c].players
                       /\ rooms'[c].players[last'.sid]
                            = [role |-> "Spectator", alive |-> TRUE, is_host |-> FALSE]
                       /\ \A p \in DOMAIN rooms[c].players \ {last'.sid} :
                            /\ p \in DOMAIN rooms'[c].players
                            /\ rooms'[c].players[p] = rooms[c].players[p]]_vars

\* C11 witness: a room in a round, and a connection that is not in it and
\* whose join_room is rejected.
C11_Witness ==
    \E c \in DOMAIN rooms, sid \in Sids \ gone :
        /\ rooms[c].state = "DAY"
        /\ sid \notin DOMAIN rooms[c].players
        /\ handle_join_room(World, sid, c) = World

\* The players of a roster that hold a role.
WithRole(players, role) == {p \in DOMAIN players : players[p].role = role}

\* The roster a start_game with mafia_count is to leave, of n players.
RolesDealt(players, n, mafia_count) ==
    /\ Cardinality(DOMAIN players) = n
    /\ Cardinality(WithRole(players, "Mafioso")) = mafia_count
    /\ Cardinality(WithRole(players, "Civilian")) = n - mafia_count
    /\ WithRole(players, "Spectator") = {}
    /\ \A p \in DOMAIN players : players[p].alive

C14_UniqueCodes ==
    [][last'.op = "create_room" => last'.room \notin DOMAIN rooms]_vars

\* C15: in every reachable state, every room whose game was started has a
\* configured mafia_count strictly less than the number of players of its
\* roster.
C15_MafiaCountBelowRoster ==
    \A c \in DOMAIN rooms :
        Started(c) => rooms[c].config.mafia_count < Cardinality(DOMAIN rooms[c].players)

\* C16: whenever tally_votes runs with at least one vote in the mapping, it
\* completes (player_kicked is sent) and eliminates exactly one player: one who
\* is in the roster and has at least as many votes as every other target; that
\* player is not alive afterwards, and no other alive flag, no role and no
\* roster membership has changed.  Stated of the rooms whose game was started.
C16_TallyEliminatesOne ==
    [][\A c \in DOMAIN rooms :
        LET room == rooms[c]
            votes1 == Put(room.votes, last'.sid, last'.arg)
        IN  (/\ last'.op = "cast_vote"
             /\ last'.room = c
             /\ Started(c)
             /\ out'.tallied)
            => /\ c \in DOMAIN rooms'
               /\ DOMAIN rooms'[c].players = DOMAIN room.players
               /\ \E k \in DOMAIN room.players :
                    /\ \A t \in Sids : VoteCount(votes1, t) <= VoteCount(votes1, k)
                    /\ out'.kicked = k
                    /\ ~rooms'[c].players[k].alive
                    /\ rooms'[c].players[k].role = room.players[k].role
                    /\ \A p \in DOMAIN room.players \ {k} :
                            rooms'[c].players[p] = room.players[p]]_vars

\* C17: handle_vote runs tally_votes only when every living player has voted:
\* in a step of cast_vote that tallies, every player of the room who is alive
\* when the vote arrives has an entry as voter in the votes, the new vote
\* included.  Stated of the rooms whose game was started.
C17_AllLivingVoted ==
    [][\A c \in DOMAIN rooms :
        (/\ last'.op = "cast_vote"
         /\ last'.room = c
         /\ Started(c)
         /\ out'.tallied)
        => AlivePlayers(rooms[c])
              \subseteq DOMAIN Put(rooms[c].votes, last'.sid, last'.arg)]_vars

\* C18: after a room's game was started no step changes the role of a player
\* of the room, and a step changes an alive flag only from true to false and
\* only when it runs tally_votes.
C18_RolesAndAliveFixed ==
    [][\A c \in DOMAIN rooms \cap DOMAIN rooms' :
        Started(c) =>
            \A p \in DOMAIN rooms[c].players \cap DOMAIN rooms'[c].players :
                /\ rooms'[c].players[p].role = rooms[c].players[p].role
                /\ rooms'[c].players[p].alive # rooms[c].players[p].alive
                     => /\ rooms[c].players[p].alive
                        /\ ~rooms'[c].players[p].alive
                        /\ out'.tallied]_vars

\* C19: a room in state END has no active timer: in every reachable state
\* where a room's state is END its timer flag is inactive, and no step of a
\* timer emits timer_update or timer_end for a room that is in END.
C19_EndStopsTimer ==
    /\ [](\A c \in DOMAIN rooms : rooms[c].state = "END" => ~Active(World, c))
    /\ [][\A c \in DOMAIN rooms :
            (rooms[c].state = "END" /\ last'.op = "run_timer" /\ last'.room = c)
                => out'.events = <<>>]_vars

\* C20: votes take effect only in a round: a cast_vote for a room whose state
\* is LOBBY or END leaves the room's votes, its players and their alive flags,
\* and its state as they were.
C20_VotesOnlyInRound ==
    [][\A c \in DOMAIN rooms :
        (/\ last'.op = "cast_vote"
         /\ last'.room = c
         /\ rooms[c].state \in {"LOBBY", "END"})
        => /\ c \in DOMAIN rooms'
           /\ rooms'[c].votes = rooms[c].votes
           /\ rooms'[c].players = rooms[c].players
           /\ rooms'[c].state = rooms[c].state]_vars

====
